---- MODULE Spec2Model ----
(***************************************************************************)
(* A model of code_analyzer.py: the Analyzer driver (main, Analyzer.run),  *)
(* the line scan engine (LineChecker.execute_checks), the tree scan engine *)
(* (AstChecker.execute_checks, ast.walk) and the twelve checks S001-S012.  *)
(*                                                                         *)
(* Text is modelled as sequences of one-character strings, so that every   *)
(* string operation of the code (strip, find, in, startswith, re.match)    *)
(* is computed character by character.  A syntax tree node is a record     *)
(* [type, lineno, name, kids]; lineno is 0 for the node types that carry   *)
(* no position (Module, arguments, Store, Load).                           *)
(***************************************************************************)
EXTENDS Integers, Sequences, FiniteSets, TLC

VARIABLES files, call, pc, i, blank_lines, message, results, lineno, todo, stdout

vars == <<files, call, pc, i, blank_lines, message, results, lineno, todo, stdout>>

(***************************************************************************)
(* Characters and the string primitives the checks use.                    *)
(***************************************************************************)
NL == "\n"

\* What str.strip() / str.rstrip() without argument remove.
Whitespace == {" ", "\n", "\t", "\r"}

DigitChars == {"0", "1", "2", "3", "4", "5", "6", "7", "8", "9"}

UpperSeq == <<"A", "B", "C", "D", "E", "F", "G", "H", "I", "J", "K", "L", "M",
              "N", "O", "P", "Q", "R", "S", "T", "U", "V", "W", "X", "Y", "Z">>

LowerSeq == <<"a", "b", "c", "d", "e", "f", "g", "h", "i", "j", "k", "l", "m",
              "n", "o", "p", "q", "r", "s", "t", "u", "v", "w", "x", "y", "z">>

UpperChars == {UpperSeq[k] : k \in 1..Len(UpperSeq)}

LowerChars == {LowerSeq[k] : k \in 1..Len(LowerSeq)}

\* str.lower() on one character.
LowerChar(c) ==
  IF c \in UpperChars THEN LowerSeq[CHOOSE k \in 1..Len(UpperSeq) : UpperSeq[k] = c] ELSE c

ToLower(s) == [k \in 1..Len(s) |-> LowerChar(s[k])]

\* The ordinal of a character of a code string ('S' and the digits), as
\* Python compares strings.
CharOrd(c) ==
  CASE c = "0" -> 48 [] c = "1" -> 49 [] c = "2" -> 50 [] c = "3" -> 51
    [] c = "4" -> 52 [] c = "5" -> 53 [] c = "6" -> 54 [] c = "7" -> 55
    [] c = "8" -> 56 [] c = "9" -> 57 [] c = "S" -> 83 [] OTHER -> 0

\* a < b for strings (lexicographic, a proper prefix is smaller).
RECURSIVE StrLess(_, _)
StrLess(a, b) ==
  IF b = <<>> THEN FALSE
  ELSE IF a = <<>> THEN TRUE
  ELSE IF CharOrd(Head(a)) # CharOrd(Head(b)) THEN CharOrd(Head(a)) < CharOrd(Head(b))
  ELSE StrLess(Tail(a), Tail(b))

\* line.lstrip(' ')
RECURSIVE LStripSpaces(_)
LStripSpaces(s) ==
  IF s # <<>> /\ Head(s) = " " THEN LStripSpaces(Tail(s)) ELSE s

\* line.lstrip(): the variant that strips every whitespace character.
RECURSIVE LStrip(_)
LStrip(s) ==
  IF s # <<>> /\ Head(s) \in Whitespace THEN LStrip(Tail(s)) ELSE s

\* line.rstrip()
RECURSIVE RStrip(_)
RStrip(s) ==
  IF s # <<>> /\ s[Len(s)] \in Whitespace THEN RStrip(SubSeq(s, 1, Len(s) - 1)) ELSE s

\* line.strip()
Strip(s) == RStrip(LStrip(s))

\* sub in s
Contains(s, sub) ==
  \E k \in 0..(Len(s) - Len(sub)) : SubSeq(s, k + 1, k + Len(sub)) = sub

\* s.startswith(sub)
StartsWith(s, sub) == Len(s) >= Len(sub) /\ SubSeq(s, 1, Len(sub)) = sub

\* s.find(c) for a single character: the 0-based index of its first
\* occurrence, -1 when there is none.
Find(s, c) ==
  IF \E k \in 1..Len(s) : s[k] = c
  THEN (CHOOSE k \in 1..Len(s) : s[k] = c /\ \A j \in 1..(k - 1) : s[j] # c) - 1
  ELSE -1

\* s[start:] with Python's slice rules (a negative start counts from the end).
SliceFrom(s, start) ==
  LET from == IF start >= 0 THEN start
              ELSE IF Len(s) + start >= 0 THEN Len(s) + start ELSE 0
  IN SubSeq(s, from + 1, Len(s))

(***************************************************************************)
(* The codes and messages of the twelve checks.  A message is the record   *)
(* [template, arg]: the template text and the token formatted into it      *)
(* (arg is the empty string for a message without a token).                *)
(***************************************************************************)
S001 == <<"S", "0", "0", "1">>
S002 == <<"S", "0", "0", "2">>
S003 == <<"S", "0", "0", "3">>
S004 == <<"S", "0", "0", "4">>
S005 == <<"S", "0", "0", "5">>
S006 == <<"S", "0", "0", "6">>
S007 == <<"S", "0", "0", "7">>
S008 == <<"S", "0", "0", "8">>
S009 == <<"S", "0", "0", "9">>
S010 == <<"S", "0", "1", "0">>
S011 == <<"S", "0", "1", "1">>
S012 == <<"S", "0", "1", "2">>

\* LineChecker.__subclasses__() and AstChecker.__subclasses__(), in the order
\* in which the classes are defined.
LineChecks == <<S001, S002, S003, S004, S005, S006, S007>>
AstChecks == <<S008, S009, S010, S011, S012>>

Codes == {LineChecks[k] : k \in 1..Len(LineChecks)} \cup {AstChecks[k] : k \in 1..Len(AstChecks)}

\* The checks whose predicate stores a formatted message in cls.message.
TokenCodes == {S007, S008, S009, S010, S011}

Text(t) == [template |-> t, arg |-> <<>>]

\* message_template.format(token)
Format(t, token) == [template |-> t, arg |-> token]

\* The class attribute message_template of each check that has one.
MessageTemplate(code) ==
  CASE code = S007 -> "Too many spaces after '{}'"
    [] code = S008 -> "Class name '{}' should use CamelCase"
    [] code = S009 -> "Function name '{}' should use snake_case"
    [] code = S010 -> "Argument name '{}' should be snake_case"
    [] code = S011 -> "Variable '{}' in function should be snake_case"
    [] OTHER -> ""

\* The class attribute message of the checks that never assign it.
FixedMessage(code) ==
  CASE code = S001 -> Text("Too long")
    [] code = S002 -> Text("Indentation is not a multiple of four")
    [] code = S003 -> Text("Unnecessary semicolon")
    [] code = S004 -> Text("At least two spaces required before inline comments")
    [] code = S005 -> Text("TODO found")
    [] code = S006 -> Text("Too many blank lines")
    [] code = S012 -> Text("Default argument value is mutable")

\* The class attribute message of the checks that assign it, as their class
\* bodies set it: the empty string.
InitialMessage == [c \in TokenCodes |-> Text("")]

\* cls.message of the check with the given code, msg being the attributes
\* of the checks that assign theirs.
MessageOf(code, msg) == IF code \in TokenCodes THEN msg[code] ELSE FixedMessage(code)

(***************************************************************************)
(* The line checks S001-S007.                                              *)
(***************************************************************************)
CheckTooLong(line) == Len(RStrip(line)) > 79

\* The same check with every leading whitespace character stripped, which
\* counts the newline of an empty line as indentation.
CheckIndentationStripsNewline(line) ==
  (Len(line) - Len(LStrip(line))) % 4 # 0

CheckIndentationIsNotAMultipleOfFour(line) ==
  (Len(line) - Len(LStripSpaces(line))) % 4 # 0

\* One iteration of the loop over the characters: the quote flags after it
\* and, once the loop has ended (break, return), how: "break" or "return".
SemicolonStep(st, char) ==
  IF st.ended # "no" THEN st
  ELSE IF char = "#" THEN [st EXCEPT !.ended = "break"]
  ELSE LET dq == IF char = "\"" /\ ~st.single_quotes
                 THEN ~st.double_quotes ELSE st.double_quotes
           sq == IF char = "'" /\ ~dq THEN ~st.single_quotes ELSE st.single_quotes
       IN [single_quotes |-> sq, double_quotes |-> dq,
           ended |-> IF char = ";" /\ ~(sq \/ dq) THEN "return" ELSE "no"]

\* The iterations for the characters lo..hi in order, from the loop state st
\* (the range is halved only to keep the evaluation shallow).
RECURSIVE SemicolonLoop(_, _, _, _)
SemicolonLoop(line, lo, hi, st) ==
  IF lo > hi THEN st
  ELSE IF lo = hi THEN SemicolonStep(st, line[lo])
  ELSE LET mid == (lo + hi) \div 2
           left == SemicolonLoop(line, lo, mid, st)
       IN IF left.ended # "no" THEN left ELSE SemicolonLoop(line, mid + 1, hi, left)

CheckUnnecessarySemicolon(line) ==
  SemicolonLoop(line, 1, Len(line),
                [single_quotes |-> FALSE, double_quotes |-> FALSE, ended |-> "no"]).ended
    = "return"

CheckLessThanTwoSpacesBeforeInlineComments(line) ==
  /\ ~StartsWith(line, <<"#">>)
  /\ Contains(line, <<"#">>)
  /\ ~Contains(line, <<" ", " ", "#">>)

CheckTodoFound(line) ==
  LET start == Find(line, "#")
      comment == SliceFrom(line, start)
  IN Contains(ToLower(comment), <<"t", "o", "d", "o">>)

\* The same check firing from two blank lines on.
CheckTooManyBlankLinesFromTwo(line, blank) ==
  IF Strip(line) = <<>>
  THEN [fire |-> FALSE, blank_lines |-> blank + 1]
  ELSE [fire |-> blank >= 2, blank_lines |-> 0]

\* The predicate and the new value of the class attribute blank_lines.
CheckTooManyBlankLines(line, blank) ==
  IF Strip(line) = <<>>
  THEN [fire |-> FALSE, blank_lines |-> blank + 1]
  ELSE [fire |-> blank > 2, blank_lines |-> 0]

KwClass == <<"c", "l", "a", "s", "s">>
KwDef == <<"d", "e", "f">>

\* re.match(r' *(class|def)  +', line): whether it matches, and group(1).
MatchConstruction(line) ==
  LET rest == LStripSpaces(line)
  IN IF StartsWith(rest, KwClass \o <<" ", " ">>) THEN [matched |-> TRUE, group1 |-> KwClass]
     ELSE IF StartsWith(rest, KwDef \o <<" ", " ">>) THEN [matched |-> TRUE, group1 |-> KwDef]
     ELSE [matched |-> FALSE, group1 |-> <<>>]

\* The predicate and the token it formats into cls.message when it fires.
CheckTooManySpacesAfterConstructionName(line) ==
  LET match == MatchConstruction(line)
  IN [fire |-> match.matched, token |-> match.group1]

(***************************************************************************)
(* Syntax tree nodes and the tree checks S008-S012.  The kids of a node    *)
(* are its child nodes in the order of ast.iter_child_nodes: a function    *)
(* definition's first kid is its arguments node, whose kids are the arg    *)
(* nodes followed by the default value expressions; an assignment's first  *)
(* kid is its (first) target.                                              *)
(***************************************************************************)
Node(type, line, name, kids) == [type |-> type, lineno |-> line, name |-> name, kids |-> kids]

\* The node types that are instances of ast.stmt and of ast.expr.
StmtTypes == {"ClassDef", "FunctionDef", "AsyncFunctionDef", "Assign", "AugAssign",
              "AnnAssign", "Pass", "Expr"}
ExprTypes == {"Name", "Attribute", "Constant", "List", "Dict", "Set", "Tuple"}

FunctionTypes == {"FunctionDef", "AsyncFunctionDef"}

\* re.match(PATTERN_NOT_CAMEL_CASE, name) is not None
NotCamelCase(name) ==
  name # <<>> /\ name[1] \in LowerChars \cup DigitChars \cup {"_"}

\* re.match(PATTERN_NOT_SNAKE_CASE, name) is not None
NotSnakeCase(name) ==
  name # <<>> /\ name[1] \in UpperChars \cup DigitChars

\* node.args.args and node.args.defaults of a function definition.
ArgsOf(node) == SelectSeq(node.kids[1].kids, LAMBDA n : n.type = "arg")
DefaultsOf(node) == SelectSeq(node.kids[1].kids, LAMBDA n : n.type \in ExprTypes)

CheckClassNameShouldBeWrittenInCamelCase(node) ==
  IF node.type = "ClassDef" /\ NotCamelCase(node.name)
  THEN [fire |-> TRUE, token |-> node.name]
  ELSE [fire |-> FALSE, token |-> <<>>]

CheckFunctionNameShouldBeWrittenInSnakeCase(node) ==
  IF node.type \in FunctionTypes /\ NotSnakeCase(node.name)
  THEN [fire |-> TRUE, token |-> node.name]
  ELSE [fire |-> FALSE, token |-> <<>>]

\* The loop over node.args.args: the first argument that matches decides.
CheckArgumentNameShouldBeWrittenInSnakeCase(node) ==
  LET bad == IF node.type \in FunctionTypes
             THEN SelectSeq(ArgsOf(node), LAMBDA a : NotSnakeCase(a.name))
             ELSE <<>>
  IN IF bad # <<>> THEN [fire |-> TRUE, token |-> bad[1].name]
     ELSE [fire |-> FALSE, token |-> <<>>]

CheckVariableShouldBeWrittenInSnakeCase(node) ==
  LET hasTarget == node.type \in {"Assign", "AugAssign", "AnnAssign"}
  IN IF hasTarget /\ node.kids[1].type = "Name" /\ NotSnakeCase(node.kids[1].name)
     THEN [fire |-> TRUE, token |-> node.kids[1].name]
     ELSE [fire |-> FALSE, token |-> <<>>]

CheckDefaultArgumentValueIsMutable(node) ==
  /\ node.type \in FunctionTypes
  /\ \E k \in 1..Len(DefaultsOf(node)) : DefaultsOf(node)[k].type \in {"Dict", "List", "Set"}

(***************************************************************************)
(* check and exec.  The class attributes a check may change are passed in  *)
(* (blank, msg) and returned (blank_lines, message).                       *)
(***************************************************************************)
\* The predicate that stores its formatted message when it fires.
TokenCheck(code, outcome, blank, msg) ==
  [fire |-> outcome.fire, blank_lines |-> blank,
   message |-> IF outcome.fire
               THEN [msg EXCEPT ![code] = Format(MessageTemplate(code), outcome.token)]
               ELSE msg]

PlainCheck(fire, blank, msg) == [fire |-> fire, blank_lines |-> blank, message |-> msg]

\* cls.check(obj) of the check with the given code.
Check(code, obj, blank, msg) ==
  CASE code = S001 -> PlainCheck(CheckTooLong(obj), blank, msg)
    [] code = S002 -> PlainCheck(CheckIndentationIsNotAMultipleOfFour(obj), blank, msg)
    [] code = S003 -> PlainCheck(CheckUnnecessarySemicolon(obj), blank, msg)
    [] code = S004 -> PlainCheck(CheckLessThanTwoSpacesBeforeInlineComments(obj), blank, msg)
    [] code = S005 -> PlainCheck(CheckTodoFound(obj), blank, msg)
    [] code = S006 -> LET o == CheckTooManyBlankLines(obj, blank)
                      IN [fire |-> o.fire, blank_lines |-> o.blank_lines, message |-> msg]
    [] code = S007 -> TokenCheck(code, CheckTooManySpacesAfterConstructionName(obj), blank, msg)
    [] code = S008 -> TokenCheck(code, CheckClassNameShouldBeWrittenInCamelCase(obj), blank, msg)
    [] code = S009 -> TokenCheck(code, CheckFunctionNameShouldBeWrittenInSnakeCase(obj), blank, msg)
    [] code = S010 -> TokenCheck(code, CheckArgumentNameShouldBeWrittenInSnakeCase(obj), blank, msg)
    [] code = S011 -> TokenCheck(code, CheckVariableShouldBeWrittenInSnakeCase(obj), blank, msg)
    [] code = S012 -> PlainCheck(CheckDefaultArgumentValueIsMutable(obj), blank, msg)

\* The dictionary exec returns; its message is the formatted output line
\* f'{path}: Line {lineno}: {cls.code} {cls.message}', kept as its parts.
Diagnostic(path, line, code, text) ==
  [lineno |-> line, code |-> code,
   message |-> [path |-> path, lineno |-> line, code |-> code, text |-> text]]

\* exec reading cls.message before it calls the predicate.
ExecMessageReadFirst(path, code, obj, line, blank, msg) ==
  LET o == Check(code, obj, blank, msg)
  IN [blank_lines |-> o.blank_lines, message |-> o.message,
      result |-> IF o.fire THEN <<Diagnostic(path, line, code, MessageOf(code, msg))>> ELSE <<>>]

\* cls.exec(path, obj, lineno): the class attributes after the call and the
\* result (a sequence holding the dictionary, empty for None).
Exec(path, code, obj, line, blank, msg) ==
  LET o == Check(code, obj, blank, msg)
  IN [blank_lines |-> o.blank_lines, message |-> o.message,
      result |-> IF o.fire THEN <<Diagnostic(path, line, code, MessageOf(code, o.message))>> ELSE <<>>]

\* The inner loop `for check in cls.__subclasses__()` over the checks from
\* position k on, for one unit: the class attributes afterwards and the
\* results appended.
RECURSIVE ExecAll(_, _, _, _, _, _, _)
ExecAll(checks, k, path, obj, line, blank, msg) ==
  IF k > Len(checks) THEN [blank_lines |-> blank, message |-> msg, results |-> <<>>]
  ELSE LET r == Exec(path, checks[k], obj, line, blank, msg)
           rest == ExecAll(checks, k + 1, path, obj, line, r.blank_lines, r.message)
       IN [blank_lines |-> rest.blank_lines, message |-> rest.message,
           results |-> r.result \o rest.results]

\* The running line of the tree scan that ignores the node visited.
TrackLineKeepsOld(node, line) == line

\* The running line of the tree scan after visiting node.
TrackLine(node, line) ==
  IF node.type \in StmtTypes \cup ExprTypes THEN node.lineno ELSE line

\* a's sort key (r['lineno'], r['code']) is smaller than or equal to b's.
KeyLessEq(a, b) ==
  \/ a.lineno < b.lineno
  \/ a.lineno = b.lineno /\ ~StrLess(b.code, a.code)

\* x put into the sorted sequence s behind every element whose key is not
\* greater (the sort is stable).
RECURSIVE InsertSorted(_, _)
InsertSorted(s, x) ==
  IF s = <<>> THEN <<x>>
  ELSE IF KeyLessEq(s[Len(s)], x) THEN Append(s, x)
  ELSE Append(InsertSorted(SubSeq(s, 1, Len(s) - 1), x), s[Len(s)])

\* The results printed in the order they were collected.
Unsorted(rs) == rs

\* sorted(results, key=lambda r: (r['lineno'], r['code']))
RECURSIVE Sorted(_)
Sorted(rs) ==
  IF rs = <<>> THEN <<>>
  ELSE InsertSorted(Sorted(SubSeq(rs, 1, Len(rs) - 1)), rs[Len(rs)])

(***************************************************************************)
(* Source fragments.  ast.parse is the parsing library: it is modelled by  *)
(* a table of source fragments, each a run of complete physical lines with *)
(* the statements the parser builds from them (line numbers relative to    *)
(* the fragment's first line) or, for text that is no valid source, the    *)
(* failure.  Every fragment is a complete sequence of top-level            *)
(* statements, so a file made of fragments parses to their statements in   *)
(* order, each shifted to the place of its fragment in the file.           *)
(***************************************************************************)
\* Source: \n
FragBlank ==
  [lines |-> <<<<"\n">>>>,
   ok |-> TRUE,
   stmts |-> <<>>]

\* Source:   \n
FragSpaces ==
  [lines |-> <<<<" ", " ", "\n">>>>,
   ok |-> TRUE,
   stmts |-> <<>>]

\* Source: x = 1\n
FragCode ==
  [lines |-> <<<<"x", " ", "=", " ", "1", "\n">>>>,
   ok |-> TRUE,
   stmts |-> <<Node("Assign", 1, <<>>, <<Node("Name", 1, <<"x">>, <<Node("Store", 0, <<>>, <<>>)>>), Node("Constant", 1, <<>>, <<>>)>>)>>]

\* Source: x = )\n
FragBad ==
  [lines |-> <<<<"x", " ", "=", " ", ")", "\n">>>>,
   ok |-> FALSE,
   stmts |-> <<>>]

\* Source: def  f(:\n
FragBadDef ==
  [lines |-> <<<<"d", "e", "f", " ", " ", "f", "(", ":", "\n">>>>,
   ok |-> FALSE,
   stmts |-> <<>>]

\* Source: A = 1; B = 2\n
FragAssignAB ==
  [lines |-> <<<<"A", " ", "=", " ", "1", ";", " ", "B", " ", "=", " ", "2", "\n">>>>,
   ok |-> TRUE,
   stmts |-> <<Node("Assign", 1, <<>>, <<Node("Name", 1, <<"A">>, <<Node("Store", 0, <<>>, <<>>)>>), Node("Constant", 1, <<>>, <<>>)>>),
              Node("Assign", 1, <<>>, <<Node("Name", 1, <<"B">>, <<Node("Store", 0, <<>>, <<>>)>>), Node("Constant", 1, <<>>, <<>>)>>)>>]

\* Source: def  F(N=[]): pass\n
FragDefSpaces ==
  [lines |-> <<<<"d", "e", "f", " ", " ", "F", "(", "N", "=", "[", "]", ")", ":", " ", "p", "a", "s", "s", "\n">>>>,
   ok |-> TRUE,
   stmts |-> <<Node("FunctionDef", 1, <<"F">>, <<Node("arguments", 0, <<>>, <<Node("arg", 1, <<"N">>, <<>>), Node("List", 1, <<>>, <<Node("Load", 0, <<>>, <<>>)>>)>>), Node("Pass", 1, <<>>, <<>>)>>)>>]

\* Source: class k: pass  # todo\n
FragClassTodo ==
  [lines |-> <<<<"c", "l", "a", "s", "s", " ", "k", ":", " ", "p", "a", "s", "s", " ", " ", "#", " ", "t", "o", "d", "o", "\n">>>>,
   ok |-> TRUE,
   stmts |-> <<Node("ClassDef", 1, <<"k">>, <<Node("Pass", 1, <<>>, <<>>)>>)>>]

\* Source: def g(a,\n  |        B): pass\n
FragDefTwoLines ==
  [lines |-> <<<<"d", "e", "f", " ", "g", "(", "a", ",", "\n">>,
              <<" ", " ", " ", " ", " ", " ", "B", ")", ":", " ", "p", "a", "s", "s", "\n">>>>,
   ok |-> TRUE,
   stmts |-> <<Node("FunctionDef", 1, <<"g">>, <<Node("arguments", 0, <<>>, <<Node("arg", 1, <<"a">>, <<>>), Node("arg", 2, <<"B">>, <<>>)>>), Node("Pass", 2, <<>>, <<>>)>>)>>]

\* Source: class  k:\n  |      def G(M): pass\n
FragClassNested ==
  [lines |-> <<<<"c", "l", "a", "s", "s", " ", " ", "k", ":", "\n">>,
              <<" ", " ", " ", " ", "d", "e", "f", " ", "G", "(", "M", ")", ":", " ", "p", "a", "s", "s", "\n">>>>,
   ok |-> TRUE,
   stmts |-> <<Node("ClassDef", 1, <<"k">>, <<Node("FunctionDef", 2, <<"G">>, <<Node("arguments", 0, <<>>, <<Node("arg", 2, <<"M">>, <<>>)>>), Node("Pass", 2, <<>>, <<>>)>>)>>)>>]

\* Source: x.y += 1\n
FragAugAttr ==
  [lines |-> <<<<"x", ".", "y", " ", "+", "=", " ", "1", "\n">>>>,
   ok |-> TRUE,
   stmts |-> <<Node("AugAssign", 1, <<>>, <<Node("Attribute", 1, <<"y">>, <<Node("Name", 1, <<"x">>, <<Node("Load", 0, <<>>, <<>>)>>), Node("Store", 0, <<>>, <<>>)>>), Node("Add", 0, <<>>, <<>>), Node("Constant", 1, <<>>, <<>>)>>)>>]

\* Source: x (80 times) \n
FragLong ==
  [lines |-> <<[k \in 1..80 |-> "x"] \o <<"\n">>>>,
   ok |-> TRUE,
   stmts |-> <<Node("Expr", 1, <<>>, <<Node("Name", 1, [k \in 1..80 |-> "x"], <<Node("Load", 0, <<>>, <<>>)>>)>>)>>]

\* Source: async def H(q, R={}): pass\n
FragAsyncDef ==
  [lines |-> <<<<"a", "s", "y", "n", "c", " ", "d", "e", "f", " ", "H", "(", "q", ",", " ", "R", "=", "{", "}", ")", ":", " ", "p", "a", "s", "s", "\n">>>>,
   ok |-> TRUE,
   stmts |-> <<Node("AsyncFunctionDef", 1, <<"H">>, <<Node("arguments", 0, <<>>, <<Node("arg", 1, <<"q">>, <<>>), Node("arg", 1, <<"R">>, <<>>), Node("Dict", 1, <<>>, <<>>)>>), Node("Pass", 1, <<>>, <<>>)>>)>>]

\* Source: Z: int = 1\n
FragAnnAssign ==
  [lines |-> <<<<"Z", ":", " ", "i", "n", "t", " ", "=", " ", "1", "\n">>>>,
   ok |-> TRUE,
   stmts |-> <<Node("AnnAssign", 1, <<>>, <<Node("Name", 1, <<"Z">>, <<Node("Store", 0, <<>>, <<>>)>>), Node("Name", 1, <<"i", "n", "t">>, <<Node("Load", 0, <<>>, <<>>)>>), Node("Constant", 1, <<>>, <<>>)>>)>>]

Fragments == {FragBlank, FragSpaces, FragCode, FragBad, FragBadDef, FragAssignAB, FragDefSpaces,
              FragClassTodo, FragDefTwoLines, FragClassNested, FragAugAttr, FragLong,
              FragAsyncDef, FragAnnAssign}

\* node with every line number of its subtree moved down by off lines.
RECURSIVE ShiftNode(_, _)
ShiftNode(node, off) ==
  [type |-> node.type,
   lineno |-> IF node.lineno > 0 THEN node.lineno + off ELSE 0,
   name |-> node.name,
   kids |-> [k \in 1..Len(node.kids) |-> ShiftNode(node.kids[k], off)]]

\* The statements of the lines from position k on: [ok, body].  Text that no
\* fragment of the table matches is not parsed by this model (ok is FALSE).
RECURSIVE ParseFrom(_, _)
ParseFrom(lines, k) ==
  IF k > Len(lines) THEN [ok |-> TRUE, body |-> <<>>]
  ELSE LET here == {f \in Fragments :
                      /\ k + Len(f.lines) - 1 <= Len(lines)
                      /\ SubSeq(lines, k, k + Len(f.lines) - 1) = f.lines}
       IN IF here = {} THEN [ok |-> FALSE, body |-> <<>>]
          ELSE LET f == CHOOSE g \in here : TRUE
                   rest == ParseFrom(lines, k + Len(f.lines))
               IN IF f.ok /\ rest.ok
                  THEN [ok |-> TRUE,
                        body |-> [n \in 1..Len(f.stmts) |-> ShiftNode(f.stmts[n], k - 1)]
                                   \o rest.body]
                  ELSE [ok |-> FALSE, body |-> <<>>]

\* ast.parse(code.read()): whether the text is valid source, and its Module.
Parse(lines) ==
  LET p == ParseFrom(lines, 1)
  IN [ok |-> p.ok, tree |-> Node("Module", 0, <<>>, p.body)]

(***************************************************************************)
(* The program.  files is the sequence of Analyzer.run calls main makes    *)
(* (the path and the lines of each file); call is the position in it.      *)
(* blank_lines and message are the class attributes of the checks; i,      *)
(* results, lineno and todo are the locals of run, of the two              *)
(* execute_checks and of ast.walk; stdout holds, per finished run call,    *)
(* the lines it printed.                                                   *)
(***************************************************************************)
File(path, lines) == [path |-> path, lines |-> lines]

CurrentFile == files[call]

\* The state when main starts: the class attributes as the class bodies set
\* them, nothing printed.
Start(fs) ==
  /\ files = fs
  /\ call = 1
  /\ pc = "idle"
  /\ i = 0
  /\ blank_lines = 0
  /\ message = InitialMessage
  /\ results = <<>>
  /\ lineno = 0
  /\ todo = <<>>
  /\ stdout = <<>>

\* main's next Analyzer.run(file): run opens the file and enters
\* LineChecker.execute_checks.
StartRun ==
  /\ pc = "idle"
  /\ call <= Len(files)
  /\ pc' = "line"
  /\ i' = 1
  /\ results' = <<>>
  /\ UNCHANGED <<files, call, blank_lines, message, lineno, todo, stdout>>

\* One iteration of the line loop: every line check on line i.
LineStep ==
  /\ pc = "line"
  /\ i <= Len(CurrentFile.lines)
  /\ LET r == ExecAll(LineChecks, 1, CurrentFile.path, CurrentFile.lines[i], i,
                      blank_lines, message)
     IN /\ blank_lines' = r.blank_lines
        /\ message' = r.message
        /\ results' = results \o r.results
  /\ i' = i + 1
  /\ UNCHANGED <<files, call, pc, lineno, todo, stdout>>

\* The line engine returns; AstChecker.execute_checks parses the text and
\* starts ast.walk.
ParseOk ==
  /\ pc = "line"
  /\ i > Len(CurrentFile.lines)
  /\ Parse(CurrentFile.lines).ok
  /\ pc' = "ast"
  /\ lineno' = 0
  /\ todo' = <<Parse(CurrentFile.lines).tree>>
  /\ UNCHANGED <<files, call, i, blank_lines, message, results, stdout>>

\* A run that catches the parse failure and goes on to print what the line
\* engine collected.
ParseErrorCaught ==
  /\ pc = "line"
  /\ i > Len(CurrentFile.lines)
  /\ ~Parse(CurrentFile.lines).ok
  /\ pc' = "ast"
  /\ lineno' = 0
  /\ todo' = <<>>
  /\ UNCHANGED <<files, call, i, blank_lines, message, results, stdout>>

\* ast.parse raises: nothing catches it in execute_checks, run or main.
ParseError ==
  /\ pc = "line"
  /\ i > Len(CurrentFile.lines)
  /\ ~Parse(CurrentFile.lines).ok
  /\ pc' = "raised"
  /\ UNCHANGED <<files, call, i, blank_lines, message, results, lineno, todo, stdout>>

\* One iteration of the loop over ast.walk(tree): the walk yields the head
\* of its queue and queues its children, then every tree check runs on it.
AstStep ==
  /\ pc = "ast"
  /\ todo # <<>>
  /\ LET node == Head(todo)
         line == TrackLine(node, lineno)
         r == ExecAll(AstChecks, 1, CurrentFile.path, node, line, blank_lines, message)
     IN /\ todo' = Tail(todo) \o node.kids
        /\ lineno' = line
        /\ blank_lines' = r.blank_lines
        /\ message' = r.message
        /\ results' = results \o r.results
  /\ UNCHANGED <<files, call, pc, i, stdout>>

\* The lines one run call prints, for the results in printing order.
Printed(path, rs) == [path |-> path, out |-> [k \in 1..Len(rs) |-> rs[k].message]]

\* A run that prints its results without sorting them.
ReportUnsorted ==
  /\ pc = "ast"
  /\ todo = <<>>
  /\ stdout' = Append(stdout, Printed(CurrentFile.path, Unsorted(results)))
  /\ call' = call + 1
  /\ pc' = "idle"
  /\ i' = 0
  /\ lineno' = 0
  /\ results' = <<>>
  /\ UNCHANGED <<files, blank_lines, message, todo>>

\* The walk is over: run sorts the results and prints them, and returns to
\* main's loop.
Report ==
  /\ pc = "ast"
  /\ todo = <<>>
  /\ stdout' = Append(stdout, Printed(CurrentFile.path, Sorted(results)))
  /\ call' = call + 1
  /\ pc' = "idle"
  /\ i' = 0
  /\ lineno' = 0
  /\ results' = <<>>
  /\ UNCHANGED <<files, blank_lines, message, todo>>

Next == StartRun \/ LineStep \/ ParseOk \/ ParseError \/ AstStep \/ Report

(***************************************************************************)
(* Inputs.                                                                 *)
(***************************************************************************)
SeqsUpTo(S, n) == UNION {[1..m -> S] : m \in 0..n}

\* The lines of a sequence of fragments.
RECURSIVE TextOf(_)
TextOf(frs) == IF frs = <<>> THEN <<>> ELSE Head(frs).lines \o TextOf(Tail(frs))

Texts(alphabet, n) == {TextOf(frs) : frs \in SeqsUpTo(alphabet, n)}

\* Directory mode: the files of the directory in sorted order, each path once.
Directory(texts) == [k \in 1..Len(texts) |-> File(k, texts[k])]

\* The same unchanged file analyzed n times.
SameFile(text, n) == [k \in 1..n |-> File(1, text)]

MaxFiles == 2
MaxFileLines == 4

\* Files of blank lines, code lines and unparsable lines, analyzed one after
\* another in one process: a directory, or one file again and again.
Init ==
  \E fs \in {Directory(ts) : ts \in SeqsUpTo(Texts({FragBlank, FragCode, FragBad}, MaxFileLines), MaxFiles)}
            \cup {SameFile(t, n) : t \in Texts({FragBlank, FragCode, FragBad}, MaxFileLines),
                                   n \in 2..MaxFiles} :
    Start(fs)

Spec == Init /\ [][Next]_vars

MaxScanLines == 5

\* One file of blank, whitespace-only, code and unparsable lines, scanned by a
\* process that has scanned nothing before.
InitFresh ==
  \E t \in Texts({FragBlank, FragSpaces, FragCode, FragBad}, MaxScanLines) :
    Start(Directory(<<t>>))

SpecFresh == InitFresh /\ [][Next]_vars

MaxDirFiles == 3

\* A directory of files, each one source fragment with line and tree
\* diagnostics of its own, or unparsable.
InitDir ==
  \E ts \in SeqsUpTo({f.lines : f \in {FragClassNested, FragDefSpaces, FragAssignAB,
                                       FragDefTwoLines, FragBadDef}}, MaxDirFiles) :
    Start(Directory(ts))

SpecDir == InitDir /\ [][Next]_vars

MaxTreeBlocks == 2

\* One file made of any fragments of the table.
InitTree ==
  \E t \in Texts(Fragments, MaxTreeBlocks) : Start(Directory(<<t>>))

SpecTree == InitTree /\ [][Next]_vars

MaxLineLen == 5

\* The characters the line checks S002, S003 and S004 tell apart, and one
\* other character.
Chars == {" ", "#", ";", "\"", "'", "x"}

\* Every physical line of up to MaxLineLen such characters, with its newline
\* or (the last line of a file) without.
LineTexts ==
  {b \o <<NL>> : b \in SeqsUpTo(Chars, MaxLineLen)}
    \cup (SeqsUpTo(Chars, MaxLineLen) \ {<<>>})

\* A file of one such line.
InitLine == \E l \in LineTexts : Start(Directory(<<<<l>>>>))

\* The line scan engine alone, on that line.
NextLine == StartRun \/ LineStep

SpecLine == InitLine /\ [][NextLine]_vars

(***************************************************************************)
(* Vocabulary of the properties, stated on the text and on the output,     *)
(* not through the checks' code.                                           *)
(***************************************************************************)
\* The files are the files of one directory: every path once, in order.
IsDirectory == \A j, k \in 1..Len(files) : j < k => files[j].path < files[k].path

\* An empty or whitespace-only line.
IsBlank(line) == \A k \in 1..Len(line) : line[k] \in Whitespace

\* Line n is non-blank and the three lines right before it are blank: it is
\* preceded by more than 2 consecutive blank lines.
AfterTooManyBlanks(lines, n) ==
  /\ ~IsBlank(lines[n])
  /\ n > 3
  /\ \A j \in (n - 3)..(n - 1) : IsBlank(lines[j])

\* The line numbers at which a sequence of output lines reports the code.
LinesReported(out, code) == {out[k].lineno : k \in {j \in 1..Len(out) : out[j].code = code}}

\* How many of the diagnostics of rs have the code and the line number.
Count(rs, code, n) == Cardinality({k \in 1..Len(rs) : rs[k].code = code /\ rs[k].lineno = n})

\* C2: in directory mode the S006 diagnostics printed for a file are those of
\* its own lines (a non-blank line after more than 2 blank lines of the same
\* file), whatever the files analyzed before it end with, because the
\* blank-line counter is 0 when the line scan of each file begins.
C2_S006DependsOnlyOnOwnLines ==
  IsDirectory =>
    \A k \in 1..Len(stdout) :
      LinesReported(stdout[k].out, S006)
        = {n \in 1..Len(files[k].lines) : AfterTooManyBlanks(files[k].lines, n)}

\* C4: two successive run calls on the same unchanged file print the same
\* sequence of lines.
C4_SecondRunPrintsTheSame ==
  \A k \in 2..Len(stdout) :
    files[k] = files[k - 1] => stdout[k].out = stdout[k - 1].out

\* The lines of the current file that the line scan has passed.
Scanned ==
  IF pc = "line" THEN i - 1
  ELSE IF pc \in {"ast", "raised"} THEN Len(CurrentFile.lines)
  ELSE 0

\* C3: in a line scan that starts with the blank-line counter at 0, S006 is
\* reported on line n exactly once if line n is non-blank and comes right
\* after more than 2 consecutive blank lines, and not at all otherwise (so
\* never on a blank line, and not after exactly 2 blank lines); and the
\* counter is 0 after every non-blank line.
C3_BlankLineRun ==
  pc # "idle" =>
    /\ \A n \in 1..Scanned :
         Count(results, S006, n) = IF AfterTooManyBlanks(CurrentFile.lines, n) THEN 1 ELSE 0
    /\ (Scanned > 0 /\ ~IsBlank(CurrentFile.lines[Scanned])) => blank_lines = 0

\* Three blank lines and then a non-blank line have just been scanned: S006
\* is reported once, on the non-blank line, and the counter is back at 0.
C3_Witness ==
  /\ pc = "line"
  /\ i = 5
  /\ AfterTooManyBlanks(CurrentFile.lines, 4)
  /\ Count(results, S006, 4) = 1
  /\ blank_lines = 0

\* The nodes of a tree, the node itself first and then each subtree in turn.
RECURSIVE NodeSeq(_)
RECURSIVE NodeSeqOfAll(_)
NodeSeq(node) == <<node>> \o NodeSeqOfAll(node.kids)
NodeSeqOfAll(nodes) ==
  IF nodes = <<>> THEN <<>> ELSE NodeSeq(Head(nodes)) \o NodeSeqOfAll(Tail(nodes))

\* The nodes of the syntax tree of a text.
NodesOfText(lines) == NodeSeq(Parse(lines).tree)

\* The tree check with the given code holds of the node.
Fires(code, node) == Check(code, node, 0, InitialMessage).fire

\* The token the tree check with the given code takes from a node it holds of.
TokenOf(code, node) == Check(code, node, 0, InitialMessage).message[code].arg

AstCodes == {AstChecks[k] : k \in 1..Len(AstChecks)}
LineCodes == {LineChecks[k] : k \in 1..Len(LineChecks)}

\* C5: a file that is no valid source stops everything: the run is never past
\* it and nothing is printed for it or for a file after it; when the failure
\* has been raised, each earlier file has its output, the failing file has
\* none, and no step of the program follows.
C5_ParseFailureAborts ==
  /\ \A k \in 1..Len(files) :
       ~Parse(files[k].lines).ok => (call <= k /\ Len(stdout) < k)
  /\ pc = "raised" =>
       /\ Len(stdout) = call - 1
       /\ \A k \in 1..Len(stdout) :
            stdout[k].path = files[k].path /\ stdout[k].path # CurrentFile.path
       /\ ~ENABLED Next

\* The second of three files has failed to parse after the line engine had
\* collected diagnostics for it; the first file's diagnostics are printed.
C5_Witness ==
  /\ pc = "raised"
  /\ call = 2
  /\ Len(files) = 3
  /\ results # <<>>
  /\ Len(stdout) = 1
  /\ stdout[1].out # <<>>

\* The keywords (class, def) that a line has, after leading spaces only and
\* before two spaces.
KeywordsOf(line) ==
  {kw \in {KwClass, KwDef} :
     \E m \in 0..Len(line) :
       /\ \A j \in 1..m : line[j] = " "
       /\ SubSeq(line, m + 1, m + Len(kw) + 2) = kw \o <<" ", " ">>}

\* The tokens that the units at line n of a text give the check: the keyword
\* of the line for S007, for a tree check the tokens of the nodes of that
\* line it holds of.
TokensAt(lines, code, n) ==
  IF code = S007 THEN (IF n \in 1..Len(lines) THEN KeywordsOf(lines[n]) ELSE {})
  ELSE LET nodes == NodesOfText(lines)
       IN {TokenOf(code, nodes[j]) :
             j \in {x \in 1..Len(nodes) : nodes[x].lineno = n /\ Fires(code, nodes[x])}}

\* The message m of a diagnostic of the text is its check's template filled
\* with a token of a unit of the diagnostic's own line.
FromOwnUnit(lines, m) ==
  m.code \in TokenCodes =>
    /\ m.text.template = MessageTemplate(m.code)
    /\ m.text.arg # <<>>
    /\ m.text.arg \in TokensAt(lines, m.code, m.lineno)

\* C10: every diagnostic S007-S011, collected or printed, carries the template
\* of its check filled with the token of a unit of its own file and line on
\* which the check fires: never the initial empty message, never the token of
\* an earlier unit or file.
C10_MessageFromSameUnit ==
  /\ \A k \in 1..Len(stdout) : \A j \in 1..Len(stdout[k].out) :
       FromOwnUnit(files[k].lines, stdout[k].out[j])
  /\ \A j \in 1..Len(results) : FromOwnUnit(CurrentFile.lines, results[j].message)

\* Two files have been printed with the same token-carrying check firing in
\* both, on different tokens.
C10_Witness ==
  \E k1, k2 \in 1..Len(stdout) :
    /\ k1 < k2
    /\ \E j1 \in 1..Len(stdout[k1].out), j2 \in 1..Len(stdout[k2].out) :
         /\ stdout[k1].out[j1].code \in TokenCodes
         /\ stdout[k1].out[j1].code = stdout[k2].out[j2].code
         /\ stdout[k1].out[j1].text.arg # stdout[k2].out[j2].text.arg

\* Output line a comes strictly before b in the order (line number, code).
Before(a, b) ==
  \/ a.lineno < b.lineno
  \/ a.lineno = b.lineno /\ StrLess(a.code, b.code)

\* C1 as stated: any two consecutively printed diagnostics of a file are in
\* strictly ascending order of (line number, code).
C1_StrictlyOrdered ==
  \A k \in 1..Len(stdout) : \A j \in 1..(Len(stdout[k].out) - 1) :
    Before(stdout[k].out[j], stdout[k].out[j + 1])

\* C1, amended: any two consecutively printed diagnostics of a file are in
\* ascending order of (line number, code), or have the same line number and
\* the same code.
C1_Ordered ==
  \A k \in 1..Len(stdout) : \A j \in 1..(Len(stdout[k].out) - 1) :
    LET a == stdout[k].out[j]
        b == stdout[k].out[j + 1]
    IN Before(a, b) \/ (a.lineno = b.lineno /\ a.code = b.code)

\* A diagnostic of the tree engine is printed right before one of the line
\* engine, which collected its diagnostics first.
C1_Witness ==
  \E k \in 1..Len(stdout) : \E j \in 1..(Len(stdout[k].out) - 1) :
    /\ stdout[k].out[j].code \in AstCodes
    /\ stdout[k].out[j + 1].code \in LineCodes
    /\ stdout[k].out[j].lineno < stdout[k].out[j + 1].lineno

\* How many nodes of the tree of a text are at line n and make the check fire.
FiringNodes(lines, code, n) ==
  LET nodes == NodesOfText(lines)
  IN Cardinality({j \in 1..Len(nodes) : nodes[j].lineno = n /\ Fires(code, nodes[j])})

\* C9: a tree diagnostic carries the line of the node it fired on: every one
\* collected so far has a positive line number at which a node makes its
\* check fire, and the diagnostics printed for a file are, per check and
\* line, as many as the nodes of that line on which the check fires.
C9_TreeLineIsNodeLine ==
  /\ \A j \in 1..Len(results) :
       results[j].code \in AstCodes =>
         /\ results[j].lineno > 0
         /\ FiringNodes(CurrentFile.lines, results[j].code, results[j].lineno) > 0
  /\ \A k \in 1..Len(stdout) : \A code \in AstCodes : \A n \in 0..Len(files[k].lines) :
       Count(stdout[k].out, code, n) = FiringNodes(files[k].lines, code, n)

\* A tree diagnostic is printed for a line after the first, on a function
\* definition visited after nodes that carry no line.
C9_Witness ==
  \E k \in 1..Len(stdout) : \E j \in 1..Len(stdout[k].out) :
    /\ stdout[k].out[j].code = S009
    /\ stdout[k].out[j].lineno > 1

\* The line of the one-line file has been scanned.
LineScanned == pc = "line" /\ i = 2 /\ Len(CurrentFile.lines) = 1

\* The scanned line.
TheLine == CurrentFile.lines[1]

\* The check with the given code is reported for line 1.
Reported(code) == \E j \in 1..Len(results) : results[j].code = code /\ results[j].lineno = 1

\* The number of space characters a line begins with.
LeadingSpaces(line) ==
  Cardinality({k \in 1..Len(line) : \A j \in 1..k : line[j] = " "})

\* Only spaces, or spaces followed by the newline.
PureWhitespace(line) ==
  \A k \in 1..Len(line) : line[k] = " " \/ (k = Len(line) /\ line[k] = NL)

\* C6, amended: S002 is reported for a line exactly if the number of its
\* leading spaces is not a multiple of 4, a line of pure whitespace included.
C6_IndentationIffNotMultipleOfFour ==
  LineScanned => (Reported(S002) <=> LeadingSpaces(TheLine) % 4 # 0)

\* C6 as stated: S002 is reported exactly if the number of leading spaces is
\* not a multiple of 4, and never for a line of pure whitespace.
C6_PureWhitespaceNeverFires ==
  LineScanned =>
    /\ Reported(S002) <=> LeadingSpaces(TheLine) % 4 # 0
    /\ PureWhitespace(TheLine) => ~Reported(S002)

\* A line of two spaces and other text has been scanned and S002 reported.
C6_Witness ==
  /\ LineScanned
  /\ LeadingSpaces(TheLine) = 2
  /\ ~PureWhitespace(TheLine)
  /\ Reported(S002)

\* The position of the first `#` of a line that has one.
FirstHash(line) ==
  CHOOSE k \in 1..Len(line) : line[k] = "#" /\ \A j \in 1..(k - 1) : line[j] # "#"

\* C7: S004 is reported exactly if the line does not start with `#`, has a
\* `#`, and the two characters right before its first `#` are not both spaces.
C7_CommentSpacingAtFirstHash ==
  LineScanned =>
    (Reported(S004) <=>
       /\ \E k \in 1..Len(TheLine) : TheLine[k] = "#"
       /\ TheLine[1] # "#"
       /\ LET h == FirstHash(TheLine)
          IN ~(h >= 3 /\ TheLine[h - 1] = " " /\ TheLine[h - 2] = " "))

\* The quote state after the first k characters of a line, each `"` toggling
\* the double-quote state while outside single quotes and each `'` the
\* single-quote state while outside double quotes.
RECURSIVE QuotesAfter(_, _)
QuotesAfter(line, k) ==
  IF k = 0 THEN [single |-> FALSE, double |-> FALSE]
  ELSE LET q == QuotesAfter(line, k - 1)
       IN IF line[k] = "\"" /\ ~q.single THEN [q EXCEPT !.double = ~q.double]
          ELSE IF line[k] = "'" /\ ~q.double THEN [q EXCEPT !.single = ~q.single]
          ELSE q

\* Position k of the line is outside single- and double-quoted spans.
OutsideQuotes(line, k) ==
  ~QuotesAfter(line, k).single /\ ~QuotesAfter(line, k).double

\* C8: S003 is reported exactly if some `;` is outside quoted spans and before
\* the comment start, the first `#` that is itself outside quoted spans.
C8_SemicolonBeforeComment ==
  LineScanned =>
    (Reported(S003) <=>
       \E k \in 1..Len(TheLine) :
         /\ TheLine[k] = ";"
         /\ OutsideQuotes(TheLine, k)
         /\ \A j \in 1..(k - 1) : ~(TheLine[j] = "#" /\ OutsideQuotes(TheLine, j)))

====
